---------------------------- MODULE Spec2Model ----------------------------
(***************************************************************************)
(* The search strategies of fairseq/search.py as a state machine.  One     *)
(* state is one strategy instance (its fields in `self`) together with the *)
(* arguments and the outcome of the last call made on it.  A decoding run  *)
(* fixes the tensor shape (bsz x beam_size x vocab_size) and the           *)
(* dictionary; every action is one whole call of a method with fresh       *)
(* caller-supplied tensors.                                                *)
(*                                                                         *)
(* Numbers.  Log-probabilities and scores are integers <= 0 (logarithms to *)
(* base 2); -math.inf is the sentinel NegInf, which absorbs addition.      *)
(* Probabilities are counted in units of 1/ProbUnit, so exp and log are    *)
(* the tables Exp and Log.  Tensors are functions over 0-based index       *)
(* ranges; the outputs of topk are sequences.                              *)
(***************************************************************************)
EXTENDS Integers, Sequences, FiniteSets, TLC

VARIABLES
    self,      \* the instance: its class and its fields
    size,      \* lprobs.size() of this decoding run: [bsz, beam, vocab]
    args,      \* the tensors the caller passes to step
    called,    \* the method called last ("" before any call)
    status,    \* "new" before any call, "ok" when the last call returned,
               \* else the name of the exception it raised
    ret,       \* what the last call returned: [scores, indices, beams] of step
    ranked,    \* the lprobs tensor(s) a wrapper handed to BeamSearch.step
    groups,    \* DiverseBeamSearch: the per-group results of the last call
    nucleus,   \* Sampling: what _sample_topp returned in the last call
    plain      \* DiverseSiblingsSearch: BeamSearch.step on the same arguments

vars == <<self, size, args, called, status, ret, ranked, groups, nucleus, plain>>

---------------------------------------------------------------------------
(* Bounds of the model. *)

MaxCells == 6      \* bsz * beam_size * vocab_size of a run is at most this
MaxStep == 1       \* the step argument ranges over 0..MaxStep

(* -math.inf *)
NegInf == -1000

LprobVals == {-1, 0}
ScoreVals == {-1, 0}

(* The order topk and sort leave equal values in is implementation-defined: *)
(* the model lets each call take the lowest or the highest index first.     *)
TieOrders == {"low", "high"}

Shapes ==
    {sz \in [bsz : 1..MaxCells, beam : 1..MaxCells, vocab : 2..MaxCells] :
        sz.bsz * sz.beam * sz.vocab <= MaxCells}

---------------------------------------------------------------------------
(* Arithmetic on values with -inf. *)

Add(a, b) == IF a = NegInf \/ b = NegInf THEN NegInf ELSE a + b

Min(a, b) == IF a <= b THEN a ELSE b

Dim(t) == Cardinality(DOMAIN t)

(* The tensors a caller can pass for a shape. *)
LprobTensors(sz) ==
    [0..(sz.bsz - 1) -> [0..(sz.beam - 1) -> [0..(sz.vocab - 1) -> LprobVals]]]

ScoreTensors(sz, step) ==
    [0..(sz.bsz - 1) -> [0..(sz.beam - 1) -> [0..(step - 1) -> ScoreVals]]]

(* tgt_dict: fairseq's Dictionary puts pad at 1 and eos at 2; a dictionary *)
(* of two symbols has eos at 0.                                            *)
TgtDict(vocab) ==
    [pad |-> 1, eos |-> IF vocab > 2 THEN 2 ELSE 0, len |-> vocab]

---------------------------------------------------------------------------
(* torch.topk over one row (a function over 0..n-1): the k largest values, *)
(* largest first, as positions.                                            *)

Best(row, S, tie) ==
    CHOOSE i \in S : \A j \in S :
        \/ row[j] < row[i]
        \/ /\ row[j] = row[i]
           /\ (tie = "low" => i <= j)
           /\ (tie = "high" => i >= j)

RECURSIVE TopKFrom(_, _, _, _)
TopKFrom(row, S, k, tie) ==
    IF k = 0 THEN <<>>
    ELSE LET i == Best(row, S, tie)
         IN  <<i>> \o TopKFrom(row, S \ {i}, k - 1, tie)

TopK(row, k, tie) == TopKFrom(row, DOMAIN row, k, tie)

---------------------------------------------------------------------------
(* Search.__init__ *)
SearchInit(cls, vocab) ==
    [class |-> cls,
     pad |-> TgtDict(vocab).pad,
     eos |-> TgtDict(vocab).eos,
     vocab_size |-> vocab]

NoRet == [scores |-> <<>>, indices |-> <<>>, beams |-> <<>>]

---------------------------------------------------------------------------
(* BeamSearch.step for one batch element: lp is (rows x vocab), sc is      *)
(* (rows x step).                                                          *)

(* BeamFlat without the history added at step > 0. *)
BeamFlatNoHistory(step, lp, sc) ==
    LET beam_size == Dim(lp)
        vocab_size == Dim(lp[0])
    IN  IF step = 0
        THEN [n \in 0..(vocab_size - 1) |-> lp[0][n]]
        ELSE [n \in 0..(beam_size * vocab_size - 1) |->
                 lp[n \div vocab_size][n % vocab_size]]

(* lines 69-75, then lprobs.view(bsz, -1) *)
BeamFlat(step, lp, sc) ==
    LET beam_size == Dim(lp)
        vocab_size == Dim(lp[0])
    IN  IF step = 0
        THEN [n \in 0..(vocab_size - 1) |-> lp[0][n]]
        ELSE [n \in 0..(beam_size * vocab_size - 1) |->
                 Add(lp[n \div vocab_size][n % vocab_size],
                     sc[n \div vocab_size][step - 1])]

(* lines 79-84 *)
BeamK(step, lp) ==
    LET beam_size == Dim(lp)
        vocab_size == Dim(lp[0])
    IN  Min(beam_size * 2,
            (IF step = 0 THEN vocab_size ELSE beam_size * vocab_size) - 1)

(* line 88: torch.div of the flat positions by vocab_size *)
BeamOf(pos, vocab_size) == pos \div vocab_size

(* TokenOf with the fmod_ left out. *)
TokenOfNoMod(pos, vocab_size) == pos

(* line 89: fmod_ *)
TokenOf(pos, vocab_size) == pos % vocab_size

BeamRow(step, lp, sc, tie) ==
    LET flat == BeamFlat(step, lp, sc)
        vocab_size == Dim(lp[0])
        top == TopK(flat, BeamK(step, lp), tie)
    IN  [scores |-> [j \in DOMAIN top |-> flat[top[j]]],
         indices |-> [j \in DOMAIN top |-> TokenOf(top[j], vocab_size)],
         beams |-> [j \in DOMAIN top |-> BeamOf(top[j], vocab_size)]]

(* BeamSearch.step: every batch element on its own (topk is over dim -1). *)
BeamSearchStep(step, lprobs, scores, tie) ==
    LET r == [b \in DOMAIN lprobs |-> BeamRow(step, lprobs[b], scores[b], tie)]
    IN  [scores |-> [b \in DOMAIN lprobs |-> r[b].scores],
         indices |-> [b \in DOMAIN lprobs |-> r[b].indices],
         beams |-> [b \in DOMAIN lprobs |-> r[b].beams]]

---------------------------------------------------------------------------
Batch == 0..(size.bsz - 1)

(* A run of BeamSearch: the caller's tensors are drawn at the start, and   *)
(* every call passes tensors with those values.                            *)

ArgsOf(sz) ==
    UNION {[step : {step}, lprobs : LprobTensors(sz), scores : ScoreTensors(sz, step)] :
              step \in 0..MaxStep}

BeamInit ==
    /\ size \in Shapes
    /\ self = SearchInit("BeamSearch", size.vocab)
    /\ args \in ArgsOf(size)
    /\ called = ""
    /\ status = "new"
    /\ ret = NoRet
    /\ ranked = <<>>
    /\ groups = <<>>
    /\ nucleus = <<>>
    /\ plain = NoRet

BeamStep ==
    /\ self.class = "BeamSearch"
    /\ \E tie \in TieOrders :
          ret' = BeamSearchStep(args.step, args.lprobs, args.scores, tie)
    /\ called' = "step"
    /\ status' = "ok"
    /\ UNCHANGED <<self, size, args, ranked, groups, nucleus, plain>>

BeamNext == BeamStep

SpecBeam == BeamInit /\ [][BeamNext]_vars

---------------------------------------------------------------------------
(* Properties of BeamSearch.step. *)

(* C1: every beam BeamSearch.step returns lies in [0, beam_size) and every *)
(* index in [0, vocab_size).                                               *)
C1_BeamsAndIndicesInRange ==
    (self.class = "BeamSearch" /\ called = "step" /\ status = "ok") =>
        \A b \in Batch : \A j \in DOMAIN ret.beams[b] :
            /\ ret.beams[b][j] \in 0..(size.beam - 1)
            /\ ret.indices[b][j] \in 0..(size.vocab - 1)

(* A call at step > 0 that returned the last beam and the last token. *)
C1_Witness ==
    /\ self.class = "BeamSearch" /\ called = "step" /\ status = "ok"
    /\ args.step > 0 /\ size.beam > 1
    /\ \E b \in Batch : \E j \in DOMAIN ret.beams[b] :
          /\ ret.beams[b][j] = size.beam - 1
          /\ ret.indices[b][j] = size.vocab - 1

(* The reference ranking: its candidates and their scores. *)
RefCandidates ==
    {c \in (0..(size.beam - 1)) \X (0..(size.vocab - 1)) :
        args.step = 0 => c[1] = 0}

RefScore(b, c) ==
    IF args.step = 0
    THEN args.lprobs[b][c[1]][c[2]]
    ELSE args.lprobs[b][c[1]][c[2]] + args.scores[b][c[1]][args.step - 1]

Returned(b) == {<<ret.beams[b][j], ret.indices[b][j]>> : j \in DOMAIN ret.beams[b]}

(* C2: the returned (beam, token) pairs are distinct candidates of the     *)
(* reference ranking, each with its reference score, in non-increasing     *)
(* order, and no candidate left out scores higher than a returned one.     *)
C2_TopOfReferenceRanking ==
    (self.class = "BeamSearch" /\ called = "step" /\ status = "ok") =>
        \A b \in Batch :
            LET n == Len(ret.scores[b])
            IN  /\ Len(ret.indices[b]) = n /\ Len(ret.beams[b]) = n
                /\ Returned(b) \subseteq RefCandidates
                /\ Cardinality(Returned(b)) = n
                /\ \A j \in 1..n :
                      ret.scores[b][j] = RefScore(b, <<ret.beams[b][j], ret.indices[b][j]>>)
                /\ \A j \in 1..(n - 1) : ret.scores[b][j] >= ret.scores[b][j + 1]
                /\ \A c \in RefCandidates \ Returned(b) : \A j \in 1..n :
                      RefScore(b, c) <= ret.scores[b][j]

(* A call at step > 0 where the histories differ, a candidate of a beam    *)
(* other than 0 is returned, and the returned scores are not all equal.    *)
C2_Witness ==
    /\ self.class = "BeamSearch" /\ called = "step" /\ status = "ok"
    /\ args.step > 0 /\ size.beam > 1
    /\ \E b \in Batch :
          /\ args.scores[b][0][args.step - 1] # args.scores[b][1][args.step - 1]
          /\ \E j \in DOMAIN ret.beams[b] : ret.beams[b][j] > 0
          /\ ret.scores[b][1] > ret.scores[b][Len(ret.scores[b])]
          /\ RefCandidates \ Returned(b) # {}

(* C3: no returned index is the pad token, and the output width is         *)
(* min(2 * beam_size, vocab_size - 1).                                     *)
C3_PadNeverSelected ==
    (self.class = "BeamSearch" /\ called = "step" /\ status = "ok") =>
        \A b \in Batch :
            /\ \A j \in DOMAIN ret.indices[b] : ret.indices[b][j] # self.pad
            /\ Len(ret.indices[b]) = Min(2 * size.beam, size.vocab - 1)

---------------------------------------------------------------------------
(* LengthConstrainedBeamSearch. *)

(* The constructor's coefficients a run may use. *)
LenConfigs ==
    { [min_len_a |-> 1, min_len_b |-> 0, max_len_a |-> 1, max_len_b |-> 0],
      [min_len_a |-> 0, min_len_b |-> 2, max_len_a |-> 0, max_len_b |-> 1],
      [min_len_a |-> 0, min_len_b |-> 0, max_len_a |-> 1, max_len_b |-> -1] }

(* The source lengths a caller may set. *)
SrcLens == {1, 2}

(* A tensor of source lengths: torch.tensor(-1) has no dimension, the      *)
(* caller's tensor has one entry per batch element.                        *)
Sentinel == [ndim |-> 0, data |-> [b \in {0} |-> -1]]

SrcLengthTensors(sz) ==
    [ndim : {1}, data : [0..(sz.bsz - 1) -> SrcLens]]

(* Indexing dim 0 with a comparison against src_lengths: a tensor without  *)
(* dimension compares as one number for the whole batch.                   *)
SrcLen(inst, b) ==
    IF inst.src_lengths.ndim = 0 THEN inst.src_lengths.data[0]
    ELSE inst.src_lengths.data[b]

(* line 104 *)
MinLens(inst, b) == inst.min_len_a * SrcLen(inst, b) + inst.min_len_b

(* line 105 *)
MaxLens(inst, b) == inst.max_len_a * SrcLen(inst, b) + inst.max_len_b

SetEos(row, eos, val) == [row EXCEPT ![eos] = val]

(* MaskEos with the min_lens assignment made last. *)
MaskEosMinLast(step, row, eos, min_len, max_len) ==
    LET r1 == IF step = max_len THEN SetEos(row, eos, 0) ELSE row
        r2 == IF step > max_len THEN SetEos(r1, eos, NegInf) ELSE r1
    IN  IF step < min_len THEN SetEos(r2, eos, NegInf) ELSE r2

(* MaskEos without the assignment of 0 at step == max_lens. *)
MaskEosNoForce(step, row, eos, min_len, max_len) ==
    LET r1 == IF step < min_len THEN SetEos(row, eos, NegInf) ELSE row
    IN  IF step > max_len THEN SetEos(r1, eos, NegInf) ELSE r1

(* lines 106-108 on one (batch, beam) row: three assignments in order *)
MaskEos(step, row, eos, min_len, max_len) ==
    LET r1 == IF step < min_len THEN SetEos(row, eos, NegInf) ELSE row
        r2 == IF step = max_len THEN SetEos(r1, eos, 0) ELSE r1
    IN  IF step > max_len THEN SetEos(r2, eos, NegInf) ELSE r2

(* lines 104-108 *)
LenMasked(inst, step, lprobs) ==
    [b \in DOMAIN lprobs |->
        [i \in DOMAIN lprobs[b] |->
            MaskEos(step, lprobs[b][i], inst.eos, MinLens(inst, b), MaxLens(inst, b))]]

(* The shapes of a length-constrained run: one or two batch elements. *)
LenShapes == {sz \in Shapes : sz.bsz <= 2}

LenInit ==
    /\ size \in LenShapes
    /\ \E cfg \in LenConfigs :
          self = [class |-> "LengthConstrainedBeamSearch",
                  pad |-> TgtDict(size.vocab).pad,
                  eos |-> TgtDict(size.vocab).eos,
                  vocab_size |-> size.vocab,
                  src_lengths |-> Sentinel,
                  min_len_a |-> cfg.min_len_a,
                  min_len_b |-> cfg.min_len_b,
                  max_len_a |-> cfg.max_len_a,
                  max_len_b |-> cfg.max_len_b]
    /\ args \in ArgsOf(size)
    /\ called = ""
    /\ status = "new"
    /\ ret = NoRet
    /\ ranked = <<>>
    /\ groups = <<>>
    /\ nucleus = <<>>
    /\ plain = NoRet

(* Search.set_src_lengths *)
SetSrcLengths ==
    /\ \E src_lengths \in SrcLengthTensors(size) :
          self' = [self EXCEPT !.src_lengths = src_lengths]
    /\ called' = "set_src_lengths"
    /\ status' = "ok"
    /\ ret' = NoRet
    /\ ranked' = <<>>
    /\ UNCHANGED <<size, args, groups, nucleus, plain>>

(* LengthConstrainedBeamSearch.step *)
LenStep ==
    /\ self.class = "LengthConstrainedBeamSearch"
    /\ LET masked == LenMasked(self, args.step, args.lprobs)
       IN  /\ ranked' = masked
           /\ \E tie \in TieOrders :
                 ret' = BeamSearchStep(args.step, masked, args.scores, tie)
    /\ called' = "step"
    /\ status' = "ok"
    /\ UNCHANGED <<self, size, args, groups, nucleus, plain>>

LenNext == SetSrcLengths \/ LenStep

SpecLen == LenInit /\ [][LenNext]_vars

---------------------------------------------------------------------------
(* Properties of LengthConstrainedBeamSearch.step. *)

(* A step that returned, on an instance whose source lengths were set. *)
LenReturned ==
    /\ self.class = "LengthConstrainedBeamSearch"
    /\ called = "step" /\ status = "ok"
    /\ self.src_lengths.ndim = 1

Beams == 0..(size.beam - 1)

Tokens == 0..(size.vocab - 1)

(* The claim's bounds of a batch element. *)
ClaimSrcLen(b) == self.src_lengths.data[b]

ClaimMinLen(b) == self.min_len_a * ClaimSrcLen(b) + self.min_len_b

ClaimMaxLen(b) == self.max_len_a * ClaimSrcLen(b) + self.max_len_b

(* C4 as stated: eos is -inf whenever step < min_len, 0 whenever           *)
(* step == max_len, -inf whenever step > max_len, else the caller's value; *)
(* no other token changes.                                                 *)
C4_AsStated ==
    LenReturned =>
        \A b \in Batch : \A i \in Beams :
            /\ args.step < ClaimMinLen(b) => ranked[b][i][self.eos] = NegInf
            /\ args.step = ClaimMaxLen(b) => ranked[b][i][self.eos] = 0
            /\ args.step > ClaimMaxLen(b) => ranked[b][i][self.eos] = NegInf
            /\ (args.step >= ClaimMinLen(b) /\ args.step < ClaimMaxLen(b)) =>
                   ranked[b][i][self.eos] = args.lprobs[b][i][self.eos]
            /\ \A v \in Tokens \ {self.eos} : ranked[b][i][v] = args.lprobs[b][i][v]

(* C4 (amended): the eos log-probability handed to ranking is 0 whenever   *)
(* step == max_len, -inf whenever step > max_len, -inf whenever            *)
(* step < min_len and step # max_len, the caller's value when none of the  *)
(* three conditions holds; no other token's log-probability changes.       *)
C4_EosMasking ==
    LenReturned =>
        \A b \in Batch : \A i \in Beams :
            /\ args.step = ClaimMaxLen(b) => ranked[b][i][self.eos] = 0
            /\ args.step > ClaimMaxLen(b) => ranked[b][i][self.eos] = NegInf
            /\ (args.step < ClaimMinLen(b) /\ args.step # ClaimMaxLen(b)) =>
                   ranked[b][i][self.eos] = NegInf
            /\ (args.step >= ClaimMinLen(b) /\ args.step < ClaimMaxLen(b)) =>
                   ranked[b][i][self.eos] = args.lprobs[b][i][self.eos]
            /\ \A v \in Tokens \ {self.eos} : ranked[b][i][v] = args.lprobs[b][i][v]

(* One call that masks two batch elements of different source length      *)
(* differently: eos is -inf for one (step < min_len) and 0 for the other   *)
(* (step == max_len), where the caller had passed neither value.           *)
C4_Witness ==
    /\ LenReturned
    /\ \E b \in Batch, c \in Batch :
          /\ ClaimSrcLen(b) # ClaimSrcLen(c)
          /\ args.step < ClaimMinLen(b) /\ args.step # ClaimMaxLen(b)
          /\ args.step = ClaimMaxLen(c)
          /\ \A i \in Beams : ranked[b][i][self.eos] = NegInf /\ ranked[c][i][self.eos] = 0
          /\ \E i \in Beams : args.lprobs[c][i][self.eos] # 0

(* The score the ranking gives a candidate of a batch element. *)
LenScore(b, i, v) ==
    IF args.step = 0 THEN ranked[b][i][v]
    ELSE IF ranked[b][i][v] = NegInf THEN NegInf
    ELSE ranked[b][i][v] + args.scores[b][i][args.step - 1]

LenCandidates == {c \in Beams \X Tokens : args.step = 0 => c[1] = 0}

(* C5 as stated: at step == max_len an eos candidate is returned and no    *)
(* returned candidate scores higher than it.                               *)
C5_AsStated ==
    LenReturned =>
        \A b \in Batch :
            args.step = ClaimMaxLen(b) =>
                \E j \in DOMAIN ret.indices[b] :
                    /\ ret.indices[b][j] = self.eos
                    /\ \A h \in DOMAIN ret.scores[b] : ret.scores[b][h] <= ret.scores[b][j]

(* C5 (amended): at step == max_len the highest score of the element's     *)
(* candidates is an eos candidate's, the first returned score is that      *)
(* score, and an eos candidate with that score is returned whenever fewer  *)
(* non-eos candidates than the output width tie with it at that score.     *)
C5_EosMaximal ==
    LenReturned =>
        \A b \in Batch :
            args.step = ClaimMaxLen(b) =>
                LET n == Len(ret.scores[b])
                    top == ret.scores[b][1]
                    tied == {c \in LenCandidates :
                                c[2] # self.eos /\ LenScore(b, c[1], c[2]) = top}
                IN  /\ n >= 1
                    /\ \A c \in LenCandidates : LenScore(b, c[1], c[2]) <= top
                    /\ \E c \in LenCandidates :
                          c[2] = self.eos /\ LenScore(b, c[1], c[2]) = top
                    /\ \A h \in 1..n : ret.scores[b][h] <= top
                    /\ Cardinality(tied) < n =>
                          \E j \in 1..n :
                              ret.indices[b][j] = self.eos /\ ret.scores[b][j] = top

(* A call at step == max_len > 0 with two beams of different history, in   *)
(* which eos is returned with the top score next to a lower-scored one.    *)
C5_Witness ==
    /\ LenReturned
    /\ args.step > 0 /\ size.beam > 1
    /\ \E b \in Batch :
          /\ args.step = ClaimMaxLen(b)
          /\ args.scores[b][0][args.step - 1] # args.scores[b][1][args.step - 1]
          /\ \E j \in DOMAIN ret.indices[b] :
                /\ ret.indices[b][j] = self.eos
                /\ ret.scores[b][j] = ret.scores[b][1]
          /\ ret.scores[b][Len(ret.scores[b])] < ret.scores[b][1]

(* C10: a step on an instance whose src_lengths is still the sentinel ends *)
(* in an error and returns no selection.                                   *)
C10_StepBeforeSrcLengthsRejected ==
    (/\ self.class = "LengthConstrainedBeamSearch"
     /\ called = "step"
     /\ self.src_lengths = Sentinel) =>
        (status # "ok" /\ ret = NoRet)

---------------------------------------------------------------------------
(* DiverseBeamSearch. *)

(* The constructor's arguments a run may use. *)
NumGroups == {1, 2, 3}

DiversityStrengths == {1, 2}

(* lprobs[:, g::num_groups, :] and scores[:, g::num_groups, :] *)
GroupRows(t, g, G) ==
    [b \in DOMAIN t |-> [i \in 0..((Dim(t[b]) \div G) - 1) |-> t[b][g + i * G]]]

(* line 140 kept from the previous call: the buffer is zeroed only when it *)
(* does not exist yet.                                                     *)
DiversityNoReset(buf, lprobs) ==
    IF buf = <<>>
    THEN [b \in DOMAIN lprobs |-> [v \in DOMAIN lprobs[b][0] |-> 0]]
    ELSE buf

(* lines 138-140: torch.zeros(lprobs[:, 0, :].size(), out=self.diversity_buf) *)
DiversityReset(buf, lprobs) ==
    [b \in DOMAIN lprobs |-> [v \in DOMAIN lprobs[b][0] |-> 0]]

(* line 149: torch.add(lprobs_g, self.diversity_strength, diversity_buf.unsqueeze(1)) *)
Penalized(lprobs_g, strength, buf) ==
    [b \in DOMAIN lprobs_g |->
        [i \in DOMAIN lprobs_g[b] |->
            [v \in DOMAIN lprobs_g[b][i] |-> Add(lprobs_g[b][i][v], strength * buf[b][v])]]]

(* lines 161-165: scatter_add_ of ones at the selected indices *)
ScatterAdd(buf, indices) ==
    [b \in DOMAIN buf |->
        [v \in DOMAIN buf[b] |->
            buf[b][v] + Cardinality({j \in DOMAIN indices[b] : indices[b][j] = v})]]

(* line 154 without the multiplication: group-local ids shifted by g. *)
GlobalBeamsNoMul(beams, G, g) ==
    [b \in DOMAIN beams |-> [j \in DOMAIN beams[b] |-> beams[b][j] + g]]

(* line 154: beams_buf.mul_(self.num_groups).add_(g) *)
GlobalBeams(beams, G, g) ==
    [b \in DOMAIN beams |-> [j \in DOMAIN beams[b] |-> beams[b][j] * G + g]]

(* One iteration of the loop of lines 143-165, for group g with the        *)
(* penalty buffer as the earlier groups left it.                           *)
GroupStep(inst, step, lprobs, scores, g, buf, tie) ==
    LET G == inst.num_groups
        rows == GroupRows(lprobs, g, G)
        scores_g == GroupRows(scores, g, G)
    IN  CHOOSE result \in
            {[lprobs_g |-> lprobs_g,
              scores |-> r.scores,
              indices |-> r.indices,
              beams |-> GlobalBeams(r.beams, G, g),
              buf |-> ScatterAdd(buf, r.indices)] :
                 <<lprobs_g, r>> \in
                     {<<l, BeamSearchStep(step, l, scores_g, tie)>> :
                         l \in {IF g > 0
                                THEN Penalized(rows, inst.diversity_strength, buf)
                                ELSE rows}}} : TRUE

(* The loop: the results of groups 0..g, each with the buffer it left. *)
RECURSIVE GroupLoop(_, _, _, _, _, _, _)
GroupLoop(inst, step, lprobs, scores, g, buf0, tie) ==
    IF g = 0
    THEN [h \in {0} |-> GroupStep(inst, step, lprobs, scores, 0, buf0, tie)]
    ELSE CHOOSE all \in
             {[h \in 0..g |->
                  IF h < g THEN before[h]
                  ELSE GroupStep(inst, step, lprobs, scores, g, before[g - 1].buf, tie)] :
                     before \in {GroupLoop(inst, step, lprobs, scores, g - 1, buf0, tie)}} : TRUE

(* lines 168-170: torch.stack(..., dim=2).view(bsz, -1) *)
Interleave(per_group, G) ==
    [b \in DOMAIN per_group[0] |->
        [p \in 1..(G * Len(per_group[0][b])) |->
            per_group[(p - 1) % G][b][((p - 1) \div G) + 1]]]

DiverseInit ==
    /\ size \in Shapes
    /\ \E num_groups \in NumGroups, diversity_strength \in DiversityStrengths :
          self = [class |-> "DiverseBeamSearch",
                  pad |-> TgtDict(size.vocab).pad,
                  eos |-> TgtDict(size.vocab).eos,
                  vocab_size |-> size.vocab,
                  num_groups |-> num_groups,
                  diversity_strength |-> -diversity_strength,
                  diversity_buf |-> <<>>]
    /\ args \in ArgsOf(size)
    /\ called = ""
    /\ status = "new"
    /\ ret = NoRet
    /\ ranked = <<>>
    /\ groups = <<>>
    /\ nucleus = <<>>
    /\ plain = NoRet

(* DiverseBeamSearch.step, lines 132-135: the beam is not divisible *)
DiverseStepRaises ==
    /\ self.class = "DiverseBeamSearch"
    /\ size.beam % self.num_groups # 0
    /\ called' = "step"
    /\ status' = "ValueError"
    /\ ret' = NoRet
    /\ ranked' = <<>>
    /\ groups' = <<>>
    /\ UNCHANGED <<self, size, args, nucleus, plain>>

(* DiverseBeamSearch.step, lines 137-171 *)
DiverseStep ==
    /\ self.class = "DiverseBeamSearch"
    /\ size.beam % self.num_groups = 0
    /\ \E tie \in TieOrders :
       \E loop \in {GroupLoop(self, args.step, args.lprobs, args.scores,
                              self.num_groups - 1,
                              DiversityReset(self.diversity_buf, args.lprobs), tie)} :
          LET G == self.num_groups
          IN  /\ ranked' = [g \in 0..(G - 1) |-> loop[g].lprobs_g]
              /\ groups' = [g \in 0..(G - 1) |->
                               [scores |-> loop[g].scores,
                                indices |-> loop[g].indices,
                                beams |-> loop[g].beams]]
              /\ self' = [self EXCEPT !.diversity_buf = loop[G - 1].buf]
              /\ ret' = [scores |-> Interleave([g \in 0..(G - 1) |-> loop[g].scores], G),
                         indices |-> Interleave([g \in 0..(G - 1) |-> loop[g].indices], G),
                         beams |-> Interleave([g \in 0..(G - 1) |-> loop[g].beams], G)]
    /\ called' = "step"
    /\ status' = "ok"
    /\ UNCHANGED <<size, args, nucleus, plain>>

DiverseNext == DiverseStepRaises \/ DiverseStep

SpecDiverse == DiverseInit /\ [][DiverseNext]_vars

(* The same class driven with a beam wide enough for a group of two or     *)
(* more hypotheses next to another group: one sentence, MinWideBeam beams  *)
(* or more, beam_size * vocab_size at most MaxWideCells.                   *)
MaxWideCells == 8
MinWideBeam == 4

WideShapes ==
    {sz \in [bsz : {1}, beam : MinWideBeam..MaxWideCells, vocab : 2..MaxWideCells] :
        sz.beam * sz.vocab <= MaxWideCells}

(* The step reads the history at column step - 1 only (line 75); the wide  *)
(* runs vary that column and leave the earlier ones at 0.                  *)
WideScoreTensors(sz, step) ==
    {sc \in ScoreTensors(sz, step) :
        \A b \in DOMAIN sc : \A i \in DOMAIN sc[b] : \A t \in DOMAIN sc[b][i] :
            t < step - 1 => sc[b][i][t] = 0}

WideArgsOf(sz) ==
    UNION {[step : {step}, lprobs : LprobTensors(sz), scores : WideScoreTensors(sz, step)] :
              step \in 0..MaxStep}

DiverseWideInit ==
    /\ size \in Shapes \cup WideShapes
    /\ \E num_groups \in NumGroups, diversity_strength \in DiversityStrengths :
          self = [class |-> "DiverseBeamSearch",
                  pad |-> TgtDict(size.vocab).pad,
                  eos |-> TgtDict(size.vocab).eos,
                  vocab_size |-> size.vocab,
                  num_groups |-> num_groups,
                  diversity_strength |-> -diversity_strength,
                  diversity_buf |-> <<>>]
    /\ args \in (IF size \in WideShapes THEN WideArgsOf(size) ELSE ArgsOf(size))
    /\ called = ""
    /\ status = "new"
    /\ ret = NoRet
    /\ ranked = <<>>
    /\ groups = <<>>
    /\ nucleus = <<>>
    /\ plain = NoRet

SpecDiverseWide == DiverseWideInit /\ [][DiverseNext]_vars

---------------------------------------------------------------------------
(* Properties of DiverseBeamSearch.step. *)

DiverseReturned ==
    self.class = "DiverseBeamSearch" /\ called = "step" /\ status = "ok"

(* How many candidates with token v groups 0..g-1 selected for element b   *)
(* in the last call.                                                       *)
RECURSIVE SelectedBefore(_, _, _)
SelectedBefore(g, b, v) ==
    IF g = 0 THEN 0
    ELSE SelectedBefore(g - 1, b, v)
         + Cardinality({j \in DOMAIN groups[g - 1].indices[b] :
                           groups[g - 1].indices[b][j] = v})

(* C6: in every call, group 0 is ranked unpenalised and group g > 0 is     *)
(* ranked with diversity_strength times the number of candidates with that *)
(* token selected by groups 0..g-1 of this call subtracted; nothing of an  *)
(* earlier call is counted.                                                *)
C6_PenaltyCountsThisCallOnly ==
    DiverseReturned =>
        \A g \in 0..(self.num_groups - 1) : \A b \in Batch :
            \A i \in 0..((size.beam \div self.num_groups) - 1) : \A v \in Tokens :
                args.lprobs[b][g + i * self.num_groups][v] - ranked[g][b][i][v]
                    = (-self.diversity_strength) * SelectedBefore(g, b, v)

(* A call in which the third group is ranked with a token penalised twice  *)
(* and another token not at all.                                           *)
C6_Witness ==
    /\ DiverseReturned
    /\ self.num_groups = 3 /\ args.step > 0
    /\ \E b \in Batch, v \in Tokens, w \in Tokens :
          /\ SelectedBefore(2, b, v) = 2
          /\ args.lprobs[b][2][v] - ranked[2][b][0][v] = 2
          /\ SelectedBefore(2, b, w) = 0
          /\ ranked[2][b][0][w] = args.lprobs[b][2][w]

(* The group an output position belongs to and its rank within the group. *)
GroupOf(p) == (p - 1) % self.num_groups

RankOf(p) == ((p - 1) \div self.num_groups) + 1

(* The score group g ranked token v of input slot beam of element b with:  *)
(* the caller's log-probability, the penalty of the earlier groups and, at *)
(* step > 0, the history of that slot.                                     *)
SlotScore(g, b, beam, v) ==
    LET penalised == Add(args.lprobs[b][beam][v],
                         self.diversity_strength * SelectedBefore(g, b, v))
    IN  IF args.step = 0 THEN penalised
        ELSE Add(penalised, args.scores[b][beam][args.step - 1])

(* C11: when the beam is divisible by num_groups (G), the output has width *)
(* G*W with W the width every group returned; output position j*G + g      *)
(* holds the j-th candidate of group g; its beam is in [0, beam_width), is *)
(* congruent to g modulo G, and is the input slot whose row produced the   *)
(* candidate's score.                                                      *)
C11_InterleavedInGroupOrder ==
    DiverseReturned =>
        \A b \in Batch :
            LET G == self.num_groups
                W == Len(groups[0].scores[b])
            IN  /\ \A g \in 0..(G - 1) :
                      /\ Len(groups[g].scores[b]) = W
                      /\ Len(groups[g].indices[b]) = W
                      /\ Len(groups[g].beams[b]) = W
                /\ Len(ret.scores[b]) = G * W
                /\ Len(ret.indices[b]) = G * W
                /\ Len(ret.beams[b]) = G * W
                /\ \A p \in 1..(G * W) :
                      /\ ret.scores[b][p] = groups[GroupOf(p)].scores[b][RankOf(p)]
                      /\ ret.indices[b][p] = groups[GroupOf(p)].indices[b][RankOf(p)]
                      /\ ret.beams[b][p] = groups[GroupOf(p)].beams[b][RankOf(p)]
                      /\ ret.beams[b][p] \in 0..(size.beam - 1)
                      /\ ret.beams[b][p] % G = GroupOf(p)
                      /\ ret.scores[b][p]
                            = SlotScore(GroupOf(p), b, ret.beams[b][p], ret.indices[b][p])

(* A call with two groups of two hypotheses each in which both groups      *)
(* return a candidate from their second hypothesis: beams 2 and 3.         *)
C11_Witness ==
    /\ DiverseReturned
    /\ self.num_groups = 2 /\ size.beam = 4 /\ args.step > 0
    /\ \E b \in Batch :
          /\ Len(ret.beams[b]) = 6
          /\ \E p, q \in DOMAIN ret.beams[b] :
                /\ GroupOf(p) = 0 /\ ret.beams[b][p] = 2
                /\ GroupOf(q) = 1 /\ ret.beams[b][q] = 3

---------------------------------------------------------------------------
(* Sampling. *)

(* exp and log on the model's numbers: a log-probability l stands for the  *)
(* probability 2^l, counted in units of 1/ProbUnit.                        *)
RECURSIVE Pow2(_)
Pow2(n) == IF n = 0 THEN 1 ELSE 2 * Pow2(n - 1)

LowestLprob == CHOOSE l \in LprobVals : \A m \in LprobVals : l <= m

ProbUnit == Pow2(-LowestLprob)

(* exp_ *)
Exp(l) == IF l = NegInf THEN 0 ELSE ProbUnit \div Pow2(-l)

(* log_ *)
Log(q) == IF q = 0 THEN NegInf ELSE CHOOSE l \in LowestLprob..0 : Exp(l) = q

(* The constructor's arguments a run may use: -1 is "not configured";      *)
(* sampling_topp is in units of 1/ProbUnit.                                *)
SamplingConfigs ==
    {[sampling_topk |-> -1, sampling_topp |-> -1]}
    \cup [sampling_topk : {1, 2}, sampling_topp : {-1}]
    \cup [sampling_topk : {-1}, sampling_topp : 1..ProbUnit]

(* Python values of the keyword arguments, and their truth value. *)
Truthy(x) == x \notin {"bool:False", "None", "str:", "list:[]"}

KwGet(kwargs, key, default) ==
    IF key \in DOMAIN kwargs THEN kwargs[key] ELSE default

(* The keyword arguments a caller passes: none, or rescore=False. *)
Kwargs ==
    {[k \in {} |-> "None"], [k \in {"rescore"} |-> "bool:False"]}

RECURSIVE SumTo(_, _)
SumTo(seq, n) == IF n = 0 THEN 0 ELSE SumTo(seq, n - 1) + seq[n]

Max(S) == CHOOSE x \in S : \A y \in S : y <= x

(* _sample_topp on one (batch, beam) row, lines 198-212: the row sorted    *)
(* descending, the mask of the words to include and last_included.         *)
ToppRow(row, p, tie) ==
    LET V == Dim(row)
        probs == [v \in DOMAIN row |-> Exp(row[v])]
        sorted_indices == TopK(probs, V, tie)
        sorted_probs == [j \in 1..V |-> probs[sorted_indices[j]]]
        cumsum_probs == [j \in 1..V |-> SumTo(sorted_probs, j)]
        lt == [j \in 1..V |-> cumsum_probs[j] < p]
        count == Cardinality({j \in 1..V : lt[j]})
        last_included == IF count > V - 1 THEN V - 1 ELSE count
    IN  [sorted_probs |-> sorted_probs,
         sorted_indices |-> sorted_indices,
         mask |-> [j \in 1..V |-> lt[j] \/ j = last_included + 1],
         last_included |-> last_included]

(* Sampling._sample_topp, lines 198-224 *)
SampleTopp(lprobs, p, tie) ==
    CHOOSE result \in
        {[lprobs |-> lprobs,
          probs |-> [b \in DOMAIN lprobs |-> [i \in DOMAIN lprobs[b] |->
                       [j \in 1..(max_dim + 1) |->
                           IF rows[b][i].mask[j] THEN rows[b][i].sorted_probs[j] ELSE 0]]],
          indices |-> [b \in DOMAIN lprobs |-> [i \in DOMAIN lprobs[b] |->
                       [j \in 1..(max_dim + 1) |-> rows[b][i].sorted_indices[j]]]]] :
             <<rows, max_dim>> \in
                 {<<r, Max({r[b][i].last_included : b \in DOMAIN lprobs, i \in DOMAIN lprobs[0]})>> :
                     r \in {[b \in DOMAIN lprobs |-> [i \in DOMAIN lprobs[b] |->
                               ToppRow(lprobs[b][i], p, tie)]]}}} : TRUE

NoLogprob == [is_none |-> TRUE, data |-> <<>>]

(* Sampling.step up to the sampling, lines 228-337, without scorers: how   *)
(* far the call gets, and the tensors it sampled from had it got there.    *)
SamplingPrepare(inst, a, tie) ==
    LET first == IF a.step = 0
                 THEN [b \in DOMAIN a.lprobs |-> [i \in {0} |-> a.lprobs[b][0]]]
                 ELSE a.lprobs
        rescore == KwGet(a.kwargs, "rescore", "str:False")
        scorers == KwGet(a.kwargs, "scorers", "list:[]")
        topp == IF inst.sampling_topp > 0
                THEN SampleTopp(first, inst.sampling_topp, tie)
                ELSE <<>>
        fits == inst.sampling_topk <= Dim(first[0][0])
        top == IF inst.sampling_topp <= 0 /\ inst.sampling_topk > 0 /\ fits
               THEN [b \in DOMAIN first |-> [i \in DOMAIN first[b] |->
                        TopK(first[b][i], inst.sampling_topk, tie)]]
               ELSE <<>>
        branch == IF inst.sampling_topp > 0 THEN "topp"
                  ELSE IF inst.sampling_topk > 0 THEN "topk"
                  ELSE "full"
        logprob == IF branch = "topk" /\ fits
                   THEN [is_none |-> FALSE,
                         data |-> [b \in DOMAIN first |-> [i \in DOMAIN first[b] |->
                                     [j \in DOMAIN top[b][i] |-> first[b][i][top[b][i][j]]]]]]
                   ELSE NoLogprob
        probs == CASE branch = "topp" -> topp.probs
                   [] branch = "topk" /\ fits ->
                        [b \in DOMAIN first |-> [i \in DOMAIN first[b] |->
                            [j \in DOMAIN top[b][i] |-> Exp(logprob.data[b][i][j])]]]
                   [] branch = "topk" /\ ~fits -> <<>>
                   [] OTHER ->
                        [b \in DOMAIN first |-> [i \in DOMAIN first[b] |->
                            [v \in DOMAIN first[b][i] |-> Exp(first[b][i][v])]]]
    IN  [status |-> IF branch = "topk" /\ ~fits THEN "RuntimeError"
                    ELSE IF logprob.is_none THEN "AttributeError"
                    ELSE IF Truthy(rescore) /\ a.step > 0 /\ ~Truthy(scorers)
                    THEN "ValueError"
                    ELSE "ok",
         nucleus |-> topp,
         probs |-> probs,
         top_indices |-> IF branch = "topp" THEN topp.indices ELSE top]

(* lines 340-389 for one draw of torch.multinomial: draw[b][i] is the      *)
(* position sampled for beam slot i of batch element b.                    *)
SamplingDraw(inst, a, pre, draw) ==
    LET remap == inst.sampling_topk > 0 \/ inst.sampling_topp > 0
        Row(i) == IF a.step = 0 THEN 0 ELSE i
        K == Dim(a.lprobs[0])
    IN  [scores |-> [b \in DOMAIN a.lprobs |-> [n \in 1..K |->
                       LET q == Log(pre.probs[b][Row(n - 1)][draw[b][n - 1]])
                       IN  IF a.step = 0 THEN q
                           ELSE Add(q, a.scores[b][n - 1][a.step - 1])]],
         indices |-> [b \in DOMAIN a.lprobs |-> [n \in 1..K |->
                       IF remap THEN pre.top_indices[b][Row(n - 1)][draw[b][n - 1]]
                       ELSE draw[b][n - 1]]],
         beams |-> [b \in DOMAIN a.lprobs |-> [n \in 1..K |->
                       IF a.step = 0 THEN 0 ELSE n - 1]]]

(* What torch.multinomial can draw: a position of non-zero probability per *)
(* beam slot (all from the first row at step 0).                           *)
Draws(a, pre) ==
    {draw \in [DOMAIN a.lprobs ->
                 [DOMAIN a.lprobs[0] -> DOMAIN pre.probs[0][0]]] :
        \A b \in DOMAIN a.lprobs : \A i \in DOMAIN a.lprobs[0] :
            pre.probs[b][IF a.step = 0 THEN 0 ELSE i][draw[b][i]] > 0}

SamplingInit ==
    /\ size \in Shapes
    /\ \E cfg \in SamplingConfigs :
          self = [class |-> "Sampling",
                  pad |-> TgtDict(size.vocab).pad,
                  eos |-> TgtDict(size.vocab).eos,
                  vocab_size |-> size.vocab,
                  sampling_topk |-> cfg.sampling_topk,
                  sampling_topp |-> cfg.sampling_topp]
    /\ \E a \in ArgsOf(size), kwargs \in Kwargs :
          args = [step |-> a.step, lprobs |-> a.lprobs, scores |-> a.scores,
                  kwargs |-> kwargs]
    /\ called = ""
    /\ status = "new"
    /\ ret = NoRet
    /\ ranked = <<>>
    /\ groups = <<>>
    /\ nucleus = <<>>
    /\ plain = NoRet

(* A direct call of Sampling._sample_topp(lprobs) *)
SampleToppCall ==
    /\ self.class = "Sampling"
    /\ self.sampling_topp > 0
    /\ \E tie \in TieOrders :
          nucleus' = SampleTopp(args.lprobs, self.sampling_topp, tie)
    /\ called' = "_sample_topp"
    /\ status' = "ok"
    /\ ret' = NoRet
    /\ UNCHANGED <<self, size, args, ranked, groups, plain>>

(* Sampling.step *)
SamplingStep ==
    /\ self.class = "Sampling"
    /\ \E tie \in TieOrders :
       \E pre \in {SamplingPrepare(self, args, tie)} :
          /\ status' = pre.status
          /\ nucleus' = pre.nucleus
          /\ IF pre.status = "ok"
             THEN \E draw \in Draws(args, pre) :
                      ret' = SamplingDraw(self, args, pre, draw)
             ELSE ret' = NoRet
    /\ called' = "step"
    /\ UNCHANGED <<self, size, args, ranked, groups, plain>>

SamplingNext == SampleToppCall \/ SamplingStep

SpecSampling == SamplingInit /\ [][SamplingNext]_vars

---------------------------------------------------------------------------
(* Properties of Sampling. *)

(* C7: called with no optional arguments, Sampling.step returns scores,    *)
(* indices and beams of shape (bsz, beam_size) without raising, at every   *)
(* step and in every truncation configuration.                             *)
C7_StepWorksWithoutHooks ==
    (/\ self.class = "Sampling"
     /\ called = "step"
     /\ DOMAIN args.kwargs = {}) =>
        /\ status = "ok"
        /\ \A t \in {ret.scores, ret.indices, ret.beams} :
              /\ DOMAIN t = Batch
              /\ \A b \in Batch : Len(t[b]) = size.beam

RECURSIVE Mass(_, _)
Mass(row, S) ==
    IF S = {} THEN 0
    ELSE LET v == CHOOSE x \in S : TRUE
         IN  Exp(row[v]) + Mass(row, S \ {v})

(* The tokens _sample_topp left with non-zero probability in a row. *)
Kept(b, i) ==
    {nucleus.indices[b][i][j] : j \in {h \in DOMAIN nucleus.probs[b][i] :
                                          nucleus.probs[b][i][h] # 0}}

(* S is a shortest prefix of the row sorted by descending probability      *)
(* whose mass is strictly more than p, or the whole row when none is.      *)
ShortestPrefixOver(row, S, p) ==
    /\ S # {} /\ S \subseteq DOMAIN row
    /\ \A v \in S : \A w \in (DOMAIN row) \ S : row[w] <= row[v]
    /\ Mass(row, S) > p \/ S = DOMAIN row
    /\ \A v \in S : (\A w \in S : row[v] <= row[w]) => Mass(row, S \ {v}) <= p

(* C8: in every row the tokens left with non-zero probability are exactly  *)
(* the shortest descending prefix whose mass strictly exceeds p.           *)
C8_NucleusStrictlyExceedsP ==
    (self.class = "Sampling" /\ called = "_sample_topp") =>
        \A b \in Batch : \A i \in Beams :
            ShortestPrefixOver(args.lprobs[b][i], Kept(b, i), self.sampling_topp)

(* What _sample_topp does keep: the shortest descending prefix whose mass  *)
(* reaches p (the first position at which the running sum is not below p). *)
ToppKeepsFirstReaching ==
    (self.class = "Sampling" /\ called = "_sample_topp") =>
        \A b \in Batch : \A i \in Beams :
            LET row == args.lprobs[b][i]
                S == Kept(b, i)
            IN  /\ S # {}
                /\ \A v \in S : \A w \in (DOMAIN row) \ S : row[w] <= row[v]
                /\ Mass(row, S) >= self.sampling_topp \/ S = DOMAIN row
                /\ \A v \in S : (\A w \in S : row[v] <= row[w]) =>
                      Mass(row, S \ {v}) < self.sampling_topp

---------------------------------------------------------------------------
(* DiverseSiblingsSearch. *)

(* The constructor's argument a run may use. *)
DiversityRates == {0, 1}

(* lines 415-420: the row length is that of the whole lprobs, at any step *)
SiblingsK(lp) ==
    LET beam_size == Dim(lp)
        vocab_size == Dim(lp[0])
    IN  Min(beam_size * 2, beam_size * vocab_size - 1)

(* lines 427-454 for one batch element, at step > 0 with k <= vocab_size *)
SiblingsRow(rate, step, lp, sc, tie) ==
    LET beam_size == Dim(lp)
        vocab_size == Dim(lp[0])
        k == SiblingsK(lp)
        cum == [i \in DOMAIN lp |-> [v \in DOMAIN lp[i] |-> Add(lp[i][v], sc[i][step - 1])]]
    IN  CHOOSE result \in
            {[scores |-> [j \in 1..k |-> pooled[final[j]]],
              indices |-> [j \in 1..k |->
                             TokenOf(i_list[final[j] \div k][(final[j] % k) + 1], vocab_size)],
              beams |-> [j \in 1..k |-> final[j] \div k]] :
                 <<i_list, pooled, final>> \in
                     {<<il, pl, TopK(pl, k, tie)>> :
                         <<il, pl>> \in
                             {<<t, [n \in 0..(beam_size * k - 1) |->
                                      Add(cum[n \div k][t[n \div k][(n % k) + 1]],
                                          -(((n % k) + 1) * rate))]>> :
                                 t \in {[i \in DOMAIN lp |-> TopK(cum[i], k, tie)]}}}} : TRUE

(* DiverseSiblingsSearch.step; "RuntimeError" is torch.topk refusing a k   *)
(* larger than the row.                                                    *)
SiblingsSearchStep(rate, step, lprobs, scores, tie) ==
    IF step = 0
    THEN [status |-> "ok", ret |-> BeamSearchStep(step, lprobs, scores, tie)]
    ELSE IF SiblingsK(lprobs[0]) > Dim(lprobs[0][0])
    THEN [status |-> "RuntimeError", ret |-> NoRet]
    ELSE LET r == [b \in DOMAIN lprobs |->
                      SiblingsRow(rate, step, lprobs[b], scores[b], tie)]
         IN  [status |-> "ok",
              ret |-> [scores |-> [b \in DOMAIN lprobs |-> r[b].scores],
                       indices |-> [b \in DOMAIN lprobs |-> r[b].indices],
                       beams |-> [b \in DOMAIN lprobs |-> r[b].beams]]]

SiblingsInit ==
    /\ size \in Shapes
    /\ \E diversity_rate \in DiversityRates :
          self = [class |-> "DiverseSiblingsSearch",
                  pad |-> TgtDict(size.vocab).pad,
                  eos |-> TgtDict(size.vocab).eos,
                  vocab_size |-> size.vocab,
                  diversity_rate |-> diversity_rate]
    /\ args \in ArgsOf(size)
    /\ called = ""
    /\ status = "new"
    /\ ret = NoRet
    /\ ranked = <<>>
    /\ groups = <<>>
    /\ nucleus = <<>>
    /\ plain = NoRet

(* DiverseSiblingsSearch.step, and for comparison BeamSearch.step of the   *)
(* same torch build (the same tie order) on tensors with the same values.  *)
SiblingsStep ==
    /\ self.class = "DiverseSiblingsSearch"
    /\ \E tie \in TieOrders :
       \E r \in {SiblingsSearchStep(self.diversity_rate, args.step,
                                    args.lprobs, args.scores, tie)} :
          /\ status' = r.status
          /\ ret' = r.ret
          /\ plain' = BeamSearchStep(args.step, args.lprobs, args.scores, tie)
    /\ called' = "step"
    /\ UNCHANGED <<self, size, args, ranked, groups, nucleus>>

SiblingsNext == SiblingsStep

SpecSiblings == SiblingsInit /\ [][SiblingsNext]_vars

---------------------------------------------------------------------------
(* Properties of DiverseSiblingsSearch.step. *)

PairsAt(r, b, score) ==
    {<<r.beams[b][j], r.indices[b][j]>> :
        j \in {h \in DOMAIN r.scores[b] : r.scores[b][h] = score}}

(* C9: with diversity_rate = 0 the step completes and returns BeamSearch's *)
(* scores and, up to the order among equal scores, its (beam, token)       *)
(* pairs.                                                                  *)
C9_RateZeroIsBeamSearch ==
    (/\ self.class = "DiverseSiblingsSearch"
     /\ called = "step"
     /\ self.diversity_rate = 0) =>
        /\ status = "ok"
        /\ ret.scores = plain.scores
        /\ \A b \in Batch : \A j \in DOMAIN plain.scores[b] :
              PairsAt(ret, b, plain.scores[b][j]) = PairsAt(plain, b, plain.scores[b][j])

(* Where the step completes it does agree with BeamSearch at rate 0. *)
SiblingsAgreeWhenComplete ==
    (/\ self.class = "DiverseSiblingsSearch"
     /\ called = "step"
     /\ self.diversity_rate = 0
     /\ status = "ok") =>
        /\ ret.scores = plain.scores
        /\ \A b \in Batch : \A j \in DOMAIN plain.scores[b] :
              PairsAt(ret, b, plain.scores[b][j]) = PairsAt(plain, b, plain.scores[b][j])

=============================================================================
